---- MODULE Spec2Model ----
(***************************************************************************)
(* A model of src/src/index.ts: the in-memory filesystem (nodes,           *)
(* permissions), Path, Fs.resolve, and the command handler of the          *)
(* terminal.  Strings are sequences of one-character strings, so that      *)
(* split, filter, join, startsWith and the tokenizer's character loop are  *)
(* computed as the code computes them.                                     *)
(***************************************************************************)
EXTENDS Integers, Sequences, FiniteSets, TLC

VARIABLES
    fs,      \* the Fs object: the heap of nodes and the root reference
    env,     \* the Env object: cwd, user, env.PATH
    input,   \* the argument the next call is made with
    last     \* the last call made: its operation, argument and return value

vars == <<fs, env, input, last>>

(***************************************************************************)
(* Bounds of the model.                                                    *)
(***************************************************************************)
MaxLen == 4          \* longest enumerated path string given to canonicalize
MaxCwdLen == 2       \* longest enumerated tail of env.cwd after its leading "/"
MaxChain == 2        \* longest chain p.canonicalize().canonicalize()...
MaxNodes == 3        \* most nodes below the root of an enumerated tree
MaxResolveLen == 4   \* longest enumerated path string given to resolve
MaxLineLen == 4      \* longest enumerated command line
MaxPathEntries == 2  \* most entries of an enumerated PATH value
MaxCmdLen == 2       \* longest enumerated command line of the PATH search

(***************************************************************************)
(* Strings.                                                                *)
(***************************************************************************)
RECURSIVE StringsUpTo(_, _)
StringsUpTo(alphabet, n) ==
    IF n = 0 THEN {<<>>}
    ELSE LET shorter == StringsUpTo(alphabet, n - 1)
         IN  shorter \cup {Append(s, c) : s \in shorter, c \in alphabet}

\* String.prototype.startsWith / endsWith with a one-character argument
StartsWith(s, c) == Len(s) >= 1 /\ s[1] = c
EndsWith(s, c) == Len(s) >= 1 /\ s[Len(s)] = c

\* String.prototype.split with a one-character separator: the pieces
\* between separators, the empty ones included ("" gives [""]).
RECURSIVE SplitFrom(_, _, _, _, _)
SplitFrom(s, sep, i, cur, acc) ==
    IF i > Len(s) THEN Append(acc, cur)
    ELSE IF s[i] = sep THEN SplitFrom(s, sep, i + 1, <<>>, Append(acc, cur))
    ELSE SplitFrom(s, sep, i + 1, Append(cur, s[i]), acc)

Split(s, sep) == SplitFrom(s, sep, 1, <<>>, <<>>)

\* Array.prototype.join with a one-character separator
RECURSIVE Join(_, _)
Join(parts, sep) ==
    IF parts = <<>> THEN <<>>
    ELSE IF Len(parts) = 1 THEN parts[1]
    ELSE parts[1] \o <<sep>> \o Join(Tail(parts), sep)

\* a pop that leaves ".." behind when there is nothing to remove
Pop_KeepsDotDot(res) ==
    IF res = <<>> THEN << <<".", ".">> >> ELSE SubSeq(res, 1, Len(res) - 1)

\* Array.prototype.pop: removes the last element; on an empty array it
\* removes nothing.
Pop(res) == IF res = <<>> THEN <<>> ELSE SubSeq(res, 1, Len(res) - 1)

(***************************************************************************)
(* Path (index.ts 229-277).  A Path is its string.                         *)
(***************************************************************************)
isAbsolute(path) == StartsWith(path, "/")

parts(path) == SelectSeq(Split(path, "/"), LAMBDA v : v # <<>>)

append(path, part) ==
    IF EndsWith(path, "/") THEN path \o part ELSE path \o <<"/">> \o part

\* one pass of the for loop of canonicalize over parts[i..]
RECURSIVE CanonLoop(_, _, _)
CanonLoop(ps, i, res) ==
    IF i > Len(ps) THEN res
    ELSE IF ps[i] = <<".", ".">> THEN CanonLoop(ps, i + 1, Pop(res))
    ELSE IF ps[i] = <<".">> THEN CanonLoop(ps, i + 1, res)
    ELSE CanonLoop(ps, i + 1, Append(res, ps[i]))

\* canonicalize without the rebase on env.cwd
canonicalize_NoRebase(path, cwd) ==
    <<"/">> \o Join(CanonLoop(parts(path), 1, <<>>), "/")

\* canonicalize without the leading separator of its result
canonicalize_NoLeadingSlash(path, cwd) ==
    LET tmp == IF ~isAbsolute(path) THEN append(cwd, path) ELSE path
    IN  Join(CanonLoop(parts(tmp), 1, <<>>), "/")

canonicalize(path, cwd) ==
    LET tmp == IF ~isAbsolute(path) THEN append(cwd, path) ELSE path
    IN  <<"/">> \o Join(CanonLoop(parts(tmp), 1, <<>>), "/")

(***************************************************************************)
(* Env (index.ts 279-299) and the identity registry (index.ts 90-113).     *)
(***************************************************************************)
fsGroups ==
    (0 :> [name |-> <<"r", "o", "o", "t">>, gid |-> 0])
    @@ (1000 :> [name |-> <<"n", "y", "x">>, gid |-> 1000])

fsUsers ==
    (0 :> [name |-> <<"r", "o", "o", "t">>, uid |-> 0, gid |-> 0, groups |-> <<>>])
    @@ (1000 :> [name |-> <<"n", "y", "x">>, uid |-> 1000, gid |-> 1000, groups |-> <<>>])

Env(uid) ==
    LET user == fsUsers[uid]
        home == append(<<"/", "h", "o", "m", "e">>, user.name)
    IN  [user |-> user, cwd |-> home, PATH |-> <<"/", "b", "i", "n">>]

(***************************************************************************)
(* Permissions (index.ts 50-88, 115-145) and node construction             *)
(* (index.ts 147-184).  An argument that may be of several types carries   *)
(* its typeof: [kind |-> "string" | "number" | "object" | "undefined"].    *)
(***************************************************************************)
defaultPermissions ==
    [DIRECTORY |->
        [user  |-> [read |-> TRUE, write |-> TRUE,  execute |-> TRUE],
         group |-> [read |-> TRUE, write |-> TRUE,  execute |-> TRUE],
         other |-> [read |-> TRUE, write |-> FALSE, execute |-> TRUE]],
     FILE |->
        [user  |-> [read |-> TRUE, write |-> TRUE,  execute |-> FALSE],
         group |-> [read |-> TRUE, write |-> TRUE,  execute |-> FALSE],
         other |-> [read |-> TRUE, write |-> FALSE, execute |-> FALSE]]]

\* a & b on non-negative integers
RECURSIVE BitAnd(_, _)
BitAnd(a, b) ==
    IF a = 0 \/ b = 0 THEN 0
    ELSE (a % 2) * (b % 2) + 2 * BitAnd(a \div 2, b \div 2)

\* a >> k on non-negative integers
ShiftRight(a, k) == a \div (2 ^ k)

\* Number(c) of a one-character string that is a digit
Number(c) ==
    CASE c = "0" -> 0 [] c = "1" -> 1 [] c = "2" -> 2 [] c = "3" -> 3
      [] c = "4" -> 4 [] c = "5" -> 5 [] c = "6" -> 6 [] c = "7" -> 7

\* the literal 0o655 of the numeric branch
Mode0o655 == 429

Undef == [kind |-> "undefined"]

\* x ?? d
Coalesce(x, d) == IF x.kind = "undefined" THEN d ELSE x

FsPermissions(permissions) ==
    IF permissions.kind \notin {"string", "number"} THEN permissions.value
    ELSE LET perms ==
                 IF permissions.kind = "string"
                 THEN [i \in 1..Len(permissions.value) |-> Number(permissions.value[i])]
                 ELSE << BitAnd(Mode0o655, 7),
                         BitAnd(ShiftRight(Mode0o655, 3), 7),
                         BitAnd(ShiftRight(Mode0o655, 6), 7) >>
         IN  [user  |-> [read    |-> BitAnd(perms[1], 4) = 1,
                         write   |-> BitAnd(perms[1], 2) = 1,
                         execute |-> BitAnd(perms[1], 1) = 1],
              group |-> [read    |-> BitAnd(perms[2], 4) = 1,
                         write   |-> BitAnd(perms[2], 2) = 1,
                         execute |-> BitAnd(perms[2], 1) = 1],
              other |-> [read    |-> BitAnd(perms[3], 4) = 1,
                         write   |-> BitAnd(perms[3], 2) = 1,
                         execute |-> BitAnd(perms[3], 1) = 1]]

\* the node FsDirectory returns; modified (new Date()) is the time of the call
FsDirectory(e, name, files, owner, permissions) ==
    LET o == IF owner.kind = "undefined" THEN e.user ELSE owner.value
    IN  [name |-> name,
         contents |-> IF files.kind = "undefined" THEN <<>> ELSE files.value,
         owner |-> [user |-> o, group |-> fsGroups[o.gid]],
         permissions |-> FsPermissions(
             Coalesce(permissions, [kind |-> "object", value |-> defaultPermissions["DIRECTORY"]])),
         modified |-> "now",
         type |-> "directory"]

\* the node FsFile returns
FsFile(e, name, content, owner, permissions) ==
    LET o == IF owner.kind = "undefined" THEN e.user ELSE owner.value
    IN  [name |-> name,
         contents |-> IF content.kind = "undefined" THEN <<>> ELSE content.value,
         owner |-> [user |-> o, group |-> fsGroups[o.gid]],
         permissions |-> FsPermissions(
             Coalesce(permissions, [kind |-> "object", value |-> defaultPermissions["DIRECTORY"]])),
         modified |-> "now",
         type |-> "file"]

\* the Fs object before any tree is looked at: a lone root directory
EmptyFs == [root |-> 0, nodes |-> (0 :> [name |-> <<"null">>, type |-> "directory", contents |-> <<>>])]

NoCall == [op |-> "none"]

(***************************************************************************)
(* Fs (index.ts 186-219).  Nodes are objects: the heap maps a reference    *)
(* to the node's fields, and a directory's contents is the array of the    *)
(* references of its children, in insertion order.  The root's name is     *)
(* null, written <<"null">>: no string of characters equals it.            *)
(***************************************************************************)
\* what resolve returns by a bare "return"
Undefined == -1

\* the inner for loop of resolve over contents[j..]: the first child named
\* name, or Undefined when the loop ends with nodeFound false
RECURSIVE FindChild_NoBreak(_, _, _, _)
FindChild_NoBreak(nodes, contents, name, j) ==
    IF j > Len(contents) THEN Undefined
    ELSE LET later == FindChild_NoBreak(nodes, contents, name, j + 1)
         IN  IF later # Undefined THEN later
             ELSE IF nodes[contents[j]].name = name THEN contents[j]
             ELSE Undefined

RECURSIVE FindChild(_, _, _, _)
FindChild(nodes, contents, name, j) ==
    IF j > Len(contents) THEN Undefined
    ELSE IF nodes[contents[j]].name = name THEN contents[j]
    ELSE FindChild(nodes, contents, name, j + 1)

\* the outer for loop of resolve from index i (1-based) at currentNode
RECURSIVE ResolveLoop(_, _, _, _)
ResolveLoop(nodes, ps, i, currentNode) ==
    IF i = Len(ps) + 1 THEN currentNode
    ELSE IF nodes[currentNode].type = "file" THEN Undefined
    ELSE LET node == FindChild(nodes, nodes[currentNode].contents, ps[i], 1)
         IN  IF node = Undefined THEN Undefined
             ELSE ResolveLoop(nodes, ps, i + 1, node)

resolve(f, path) == ResolveLoop(f.nodes, parts(path), 1, f.root)

(***************************************************************************)
(* handleCommand (index.ts 391-425).                                       *)
(***************************************************************************)
\* the tokenizer loop with every double quote toggling quoted mode
RECURSIVE TokLoop_NoEscape(_, _, _, _, _)
TokLoop_NoEscape(v, i, part, res, quoted) ==
    IF i > Len(v) THEN Append(res, part)
    ELSE IF v[i] = "\"" THEN TokLoop_NoEscape(v, i + 1, part, res, ~quoted)
    ELSE IF v[i] = " " /\ quoted # TRUE
         THEN TokLoop_NoEscape(v, i + 1, <<>>, Append(res, part), quoted)
    ELSE TokLoop_NoEscape(v, i + 1, Append(part, v[i]), res, quoted)

\* the tokenizer loop without the continue after a toggle
RECURSIVE TokLoop_KeepsQuote(_, _, _, _, _)
TokLoop_KeepsQuote(v, i, part, res, quoted) ==
    IF i > Len(v) THEN Append(res, part)
    ELSE IF v[i] = "\"" /\ (i = 1 \/ v[i - 1] # "\\")
         THEN TokLoop_KeepsQuote(v, i + 1, Append(part, v[i]), res, ~quoted)
    ELSE IF v[i] = " " /\ quoted # TRUE
         THEN TokLoop_KeepsQuote(v, i + 1, <<>>, Append(res, part), quoted)
    ELSE TokLoop_KeepsQuote(v, i + 1, Append(part, v[i]), res, quoted)

\* the tokenizer loop from index i (1-based); v[i - 1] of the first
\* character is undefined, which is not a backslash
RECURSIVE TokLoop(_, _, _, _, _)
TokLoop(v, i, part, res, quoted) ==
    IF i > Len(v) THEN Append(res, part)
    ELSE IF v[i] = "\"" /\ (i = 1 \/ v[i - 1] # "\\")
         THEN TokLoop(v, i + 1, part, res, ~quoted)
    ELSE IF v[i] = " " /\ quoted # TRUE
         THEN TokLoop(v, i + 1, <<>>, Append(res, part), quoted)
    ELSE TokLoop(v, i + 1, Append(part, v[i]), res, quoted)

\* node.contents.find(f => f.name === cmd)
RECURSIVE Find(_, _, _, _)
Find(nodes, contents, cmd, j) ==
    IF j > Len(contents) THEN Undefined
    ELSE IF nodes[contents[j]].name = cmd THEN contents[j]
    ELSE Find(nodes, contents, cmd, j + 1)

\* the loop over env.env.PATH.split(":") from entry k: the binaries
\* evaluated, in order, each with the arguments it is given
RECURSIVE PathLoop(_, _, _, _, _, _)
PathLoop(f, entries, k, cmd, args, invoked) ==
    IF k > Len(entries) THEN invoked
    ELSE LET node == resolve(f, entries[k])
         IN  IF node # Undefined /\ f.nodes[node].type = "directory"
             THEN LET exe == Find(f.nodes, f.nodes[node].contents, cmd, 1)
                  IN  IF exe = Undefined \/ f.nodes[exe].type # "file"
                      THEN invoked
                      ELSE PathLoop(f, entries, k + 1, cmd, args,
                                    Append(invoked, [exe |-> exe, args |-> args]))
             ELSE PathLoop(f, entries, k + 1, cmd, args, invoked)

handleCommand(f, e, v) ==
    LET res == TokLoop(v, 1, <<>>, <<>>, FALSE)
        cmd == res[1]
        args == Tail(res)
    IN  [op |-> "handleCommand", v |-> v, res |-> res, cmd |-> cmd, args |-> args,
         invoked |-> PathLoop(f, Split(e.PATH, ":"), 1, cmd, args, <<>>)]

(***************************************************************************)
(* Calls of Path.canonicalize.                                             *)
(***************************************************************************)
PathAlphabet == {"/", ".", "a"}

ExamplePaths ==
    { <<"/", "a", "/", "b", "/", ".", ".", "/", "c">>,
      <<"x">>,
      <<"/", ".", ".", "/", "a">> }

Cwds ==
    {<<"/">> \o s : s \in StringsUpTo(PathAlphabet, MaxCwdLen)} \cup {Env(1000).cwd}

InitPath ==
    /\ fs = EmptyFs
    /\ \E cwd \in Cwds : env = [Env(1000) EXCEPT !.cwd = cwd]
    /\ input \in StringsUpTo(PathAlphabet, MaxLen) \cup ExamplePaths
    /\ last = NoCall

\* Path(input).canonicalize()
Canonicalize ==
    /\ last.op = "none"
    /\ last' = [op |-> "canonicalize", path |-> input,
                ret |-> canonicalize(input, env.cwd), n |-> 1]
    /\ UNCHANGED <<fs, env, input>>

\* .canonicalize() on the Path the last call returned
CanonicalizeResult ==
    /\ last.op = "canonicalize"
    /\ last.n < MaxChain
    /\ last' = [op |-> "canonicalize", path |-> last.ret,
                ret |-> canonicalize(last.ret, env.cwd), n |-> last.n + 1]
    /\ UNCHANGED <<fs, env, input>>

NextPath == Canonicalize \/ CanonicalizeResult

SpecPath == InitPath /\ [][NextPath]_vars

(***************************************************************************)
(* Calls of Fs.resolve, on every tree of at most MaxNodes nodes below the  *)
(* root.                                                                   *)
(***************************************************************************)
NodeNames == {<<"a">>, <<"b">>}

RootNode(type) == [name |-> <<"null">>, type |-> type, contents |-> <<>>]

\* the heaps with nodes 0..k: node k is put last into a directory made
\* before it
RECURSIVE Heaps(_)
Heaps(k) ==
    IF k = 0 THEN {(0 :> RootNode("directory")), (0 :> RootNode("file"))}
    ELSE UNION {
           { [h EXCEPT ![d].contents = Append(@, k)]
                 @@ (k :> [name |-> nm, type |-> ty, contents |-> <<>>]) :
             d \in {x \in DOMAIN h : h[x].type = "directory"},
             nm \in NodeNames,
             ty \in {"file", "directory"} } :
           h \in Heaps(k - 1) }

Trees == {[root |-> 0, nodes |-> h] : h \in UNION {Heaps(k) : k \in 0..MaxNodes}}

InitFs ==
    /\ fs \in Trees
    /\ env = Env(1000)
    /\ input \in StringsUpTo({"/", "a", "b"}, MaxResolveLen)
    /\ last = NoCall

\* fs.resolve(Path(input))
Resolve ==
    /\ last.op = "none"
    /\ last' = [op |-> "resolve", path |-> input, ret |-> resolve(fs, input)]
    /\ UNCHANGED <<fs, env, input>>

NextFs == Resolve

SpecFs == InitFs /\ [][NextFs]_vars

(***************************************************************************)
(* Calls of FsPermissions, FsFile and FsDirectory.                         *)
(***************************************************************************)
OctalDigits == {"0", "1", "2", "3", "4", "5", "6", "7"}

PermissionArgs ==
    {[kind |-> "string", value |-> <<a, b, c>>] : a, b, c \in OctalDigits}
    \cup {[kind |-> "number", value |-> n] : n \in 0..(8 * 8 * 8 - 1)}
    \cup {[kind |-> "object", value |-> defaultPermissions[k]] : k \in {"DIRECTORY", "FILE"}}
    \cup {Undef}

InitPerm ==
    /\ fs = EmptyFs
    /\ env = Env(1000)
    /\ input \in PermissionArgs
    /\ last = NoCall

\* FsPermissions(input)
CallFsPermissions ==
    /\ last.op = "none"
    /\ input.kind # "undefined"
    /\ last' = [op |-> "FsPermissions", arg |-> input, ret |-> FsPermissions(input)]
    /\ UNCHANGED <<fs, env, input>>

\* FsFile("a", undefined, undefined, input)
CallFsFile ==
    /\ last.op = "none"
    /\ last' = [op |-> "FsFile", arg |-> input,
                ret |-> FsFile(env, <<"a">>, Undef, Undef, input)]
    /\ UNCHANGED <<fs, env, input>>

\* FsDirectory("a", undefined, undefined, input)
CallFsDirectory ==
    /\ last.op = "none"
    /\ last' = [op |-> "FsDirectory", arg |-> input,
                ret |-> FsDirectory(env, <<"a">>, Undef, Undef, input)]
    /\ UNCHANGED <<fs, env, input>>

NextPerm == CallFsPermissions \/ CallFsFile \/ CallFsDirectory

SpecPerm == InitPerm /\ [][NextPerm]_vars

(***************************************************************************)
(* The terminal: Enter in the prompt hands its value to handleCommand      *)
(* (index.ts 427-431).                                                     *)
(***************************************************************************)
Dir(name, contents) == [name |-> name, type |-> "directory", contents |-> contents]
File(name) == [name |-> name, type |-> "file", contents |-> <<>>]

\* the tree of index.ts 300-332 without the contents of /home/nyx:
\* /bin/tree, /home/nyx/user.txt, /root/root.txt
FixtureFs ==
    [root |-> 0,
     nodes |->
        (0 :> Dir(<<"null">>, <<1, 3, 6>>))
        @@ (1 :> Dir(<<"b", "i", "n">>, <<2>>))
        @@ (2 :> File(<<"t", "r", "e", "e">>))
        @@ (3 :> Dir(<<"h", "o", "m", "e">>, <<4>>))
        @@ (4 :> Dir(<<"n", "y", "x">>, <<5>>))
        @@ (5 :> File(<<"u", "s", "e", "r", ".", "t", "x", "t">>))
        @@ (6 :> Dir(<<"r", "o", "o", "t">>, <<7>>))
        @@ (7 :> File(<<"r", "o", "o", "t", ".", "t", "x", "t">>))]

LineAlphabet == {" ", "\"", "\\", "a"}

CatHelloWorldX ==
    <<"c", "a", "t", " ", "\"", "h", "e", "l", "l", "o", " ",
      "w", "o", "r", "l", "d", "\"", " ", "x">>

EchoEscapedQuote == <<"e", "c", "h", "o", " ", "a", "\\", "\"", "b">>

TreeHome == <<"t", "r", "e", "e", " ", "/", "h", "o", "m", "e">>

InitTok ==
    /\ fs = FixtureFs
    /\ env = Env(1000)
    /\ input \in StringsUpTo(LineAlphabet, MaxLineLen)
                 \cup {CatHelloWorldX, EchoEscapedQuote, TreeHome}
    /\ last = NoCall

\* keyup of Enter in the prompt whose value is input
KeyupEnter ==
    /\ last.op = "none"
    /\ last' = handleCommand(fs, env, input)
    /\ UNCHANGED <<fs, env, input>>

NextTok == KeyupEnter

SpecTok == InitTok /\ [][NextTok]_vars

\* a tree with two directories of binaries: /b holds the file a; /u holds
\* a directory a and the files aa and "a a"; /f is a file
TwoBinFs ==
    [root |-> 0,
     nodes |->
        (0 :> Dir(<<"null">>, <<1, 3, 7>>))
        @@ (1 :> Dir(<<"b">>, <<2>>))
        @@ (2 :> File(<<"a">>))
        @@ (3 :> Dir(<<"u">>, <<4, 5, 6>>))
        @@ (4 :> Dir(<<"a">>, <<>>))
        @@ (5 :> File(<<"a", "a">>))
        @@ (6 :> File(<<"a", " ", "a">>))
        @@ (7 :> File(<<"f">>))]

PathEntries == {<<"/", "b">>, <<"/", "u">>, <<"/", "n">>, <<"/", "f">>}

\* the PATH values of 1..n entries
RECURSIVE PathValues(_)
PathValues(n) ==
    IF n = 1 THEN PathEntries
    ELSE PathValues(n - 1)
         \cup {p \o <<":">> \o q : p \in PathValues(n - 1), q \in PathEntries}

InitShell ==
    /\ fs = TwoBinFs
    /\ \E p \in PathValues(MaxPathEntries) : env = [Env(1000) EXCEPT !.PATH = p]
    /\ input \in StringsUpTo({"a", " "}, MaxCmdLen)
                 \cup {<<"\"", "a", " ", "a", "\"">>}
    /\ last = NoCall

NextShell == KeyupEnter

SpecShell == InitShell /\ [][NextShell]_vars

(***************************************************************************)
(* Properties of Path.canonicalize.                                        *)
(***************************************************************************)
\* the positions where a run of non-separator characters starts
SegStarts(s) == {i \in 1..Len(s) : s[i] # "/" /\ (i = 1 \/ s[i - 1] = "/")}

\* the run of non-separator characters that starts at i
SegAt(s, i) ==
    LET end == CHOOSE j \in i..Len(s) :
                   /\ \A k \in i..j : s[k] # "/"
                   /\ (j = Len(s) \/ s[j + 1] = "/")
    IN  SubSeq(s, i, end)

RECURSIVE SegsFrom(_, _)
SegsFrom(s, starts) ==
    IF starts = {} THEN <<>>
    ELSE LET i == CHOOSE m \in starts : \A k \in starts : m <= k
         IN  <<SegAt(s, i)>> \o SegsFrom(s, starts \ {i})

\* the non-empty segments of s, in order
NonEmptySegments(s) == SegsFrom(s, SegStarts(s))

\* the stack left by a left-to-right reduction of segs
RECURSIVE StackReduce(_)
StackReduce(segs) ==
    IF segs = <<>> THEN <<>>
    ELSE LET before == StackReduce(SubSeq(segs, 1, Len(segs) - 1))
             seg == segs[Len(segs)]
         IN  CASE seg = <<".", ".">> ->
                      IF before = <<>> THEN <<>> ELSE SubSeq(before, 1, Len(before) - 1)
               [] seg = <<".">> -> before
               [] OTHER -> before \o <<seg>>

RECURSIVE SlashJoined(_)
SlashJoined(segs) ==
    IF segs = <<>> THEN <<>>
    ELSE IF Len(segs) = 1 THEN segs[1]
    ELSE SlashJoined(SubSeq(segs, 1, Len(segs) - 1)) \o <<"/">> \o segs[Len(segs)]

\* a well-formed absolute path: one leading "/", no trailing "/" unless it
\* is "/", and no empty, "." or ".." segment
WellFormedAbsolute(s) ==
    /\ Len(s) >= 1
    /\ s[1] = "/"
    /\ \/ Len(s) = 1
       \/ /\ s[Len(s)] # "/"
          /\ \A i \in 1..(Len(s) - 1) : ~(s[i] = "/" /\ s[i + 1] = "/")
          /\ \A i \in SegStarts(s) : SegAt(s, i) \notin {<<".">>, <<".", ".">>}

HomeNyx == <<"/", "h", "o", "m", "e", "/", "n", "y", "x">>

\* C2: canonicalize returns "/" followed by the "/"-joined stack reduction
\* (".." pops, "." is skipped, anything else is pushed) of the non-empty
\* segments of p when p is absolute and of cwd.append(p) when p is
\* relative; "/a/b/../c" gives "/a/c", and "x" under /home/nyx gives
\* "/home/nyx/x".
C2_CanonicalizeIsStackReduction ==
    last.op = "canonicalize" =>
        /\ LET p == last.path
               abs == p # <<>> /\ p[1] = "/"
               src == IF abs THEN p
                      ELSE IF env.cwd[Len(env.cwd)] = "/" THEN env.cwd \o p
                      ELSE env.cwd \o <<"/">> \o p
           IN  last.ret = <<"/">> \o SlashJoined(StackReduce(NonEmptySegments(src)))
        /\ last.path = <<"/", "a", "/", "b", "/", ".", ".", "/", "c">>
               => last.ret = <<"/", "a", "/", "c">>
        /\ (last.path = <<"x">> /\ env.cwd = HomeNyx)
               => last.ret = HomeNyx \o <<"/", "x">>

C2_Witness ==
    /\ last.op = "canonicalize"
    /\ last.path = <<"x">>
    /\ env.cwd = HomeNyx
    /\ last.ret = HomeNyx \o <<"/", "x">>

\* C3: canonicalize is idempotent: canonicalizing the result of
\* canonicalize returns the same string, and canonicalizing an
\* already-canonical absolute path returns that path.
C3_CanonicalizeIdempotent ==
    last.op = "canonicalize" =>
        /\ last.n >= 2 => last.ret = last.path
        /\ WellFormedAbsolute(last.path) => last.ret = last.path

C3_Witness ==
    /\ last.op = "canonicalize"
    /\ last.n = 2
    /\ last.ret = last.path
    /\ input = <<"a", "/", ".", ".">>
    /\ last.path # env.cwd \o <<"/">> \o input

\* C10: the string canonicalize returns is a well-formed absolute path
\* (exactly one leading "/", no trailing "/" unless it is "/", no empty,
\* "." or ".." segment); a ".." met on an empty stack leaves it empty, so
\* "/.." gives "/" and "/../a" gives "/a".
C10_CanonicalizeWellFormed ==
    last.op = "canonicalize" =>
        /\ WellFormedAbsolute(last.ret)
        /\ last.path = <<"/", ".", ".">> => last.ret = <<"/">>
        /\ last.path = <<"/", ".", ".", "/", "a">> => last.ret = <<"/", "a">>

C10_Witness ==
    /\ last.op = "canonicalize"
    /\ last.path = <<"/", ".", ".", "/", "a">>
    /\ last.ret = <<"/", "a">>

(***************************************************************************)
(* Properties of Fs.resolve.                                               *)
(***************************************************************************)
\* the children of directory d named seg, as positions in its contents
Matches(f, d, seg) ==
    {j \in 1..Len(f.nodes[d].contents) : f.nodes[f.nodes[d].contents[j]].name = seg}

\* the walk from the root along segs: a File has no children, a Directory
\* is left for its first child named as the segment
RECURSIVE Walk(_, _)
Walk(f, segs) ==
    IF segs = <<>> THEN f.root
    ELSE LET cur == Walk(f, SubSeq(segs, 1, Len(segs) - 1))
             seg == segs[Len(segs)]
         IN  IF cur = Undefined THEN Undefined
             ELSE IF f.nodes[cur].type = "file" THEN Undefined
             ELSE IF Matches(f, cur, seg) = {} THEN Undefined
             ELSE f.nodes[cur].contents[
                      CHOOSE j \in Matches(f, cur, seg) :
                          \A k \in Matches(f, cur, seg) : j <= k]

\* C1: resolve equals the walk from the root that fails at a File and
\* takes the first child, in insertion order, named as the segment; an
\* empty segment sequence ("", "/", "//") returns the root, a segment after
\* a File gives not-found, and of two children with one name the
\* first-inserted is returned.
C1_ResolveIsFirstMatchWalk ==
    last.op = "resolve" =>
        /\ last.ret = Walk(fs, NonEmptySegments(last.path))
        /\ last.path \in {<<>>, <<"/">>, <<"/", "/">>} => last.ret = fs.root
        /\ LET segs == NonEmptySegments(last.path)
           IN  \A k \in 0..(Len(segs) - 1) :
                   LET n == Walk(fs, SubSeq(segs, 1, k))
                   IN  (n # Undefined /\ fs.nodes[n].type = "file")
                           => last.ret = Undefined
        /\ \A j, k \in 1..Len(fs.nodes[fs.root].contents) :
               ( /\ j < k
                 /\ last.path = <<"/">> \o fs.nodes[fs.nodes[fs.root].contents[k]].name
                 /\ fs.nodes[fs.nodes[fs.root].contents[j]].name
                        = fs.nodes[fs.nodes[fs.root].contents[k]].name )
                   => last.ret # fs.nodes[fs.root].contents[k]

C1_Witness ==
    /\ last.op = "resolve"
    /\ last.path = <<"/", "a">>
    /\ Len(fs.nodes[fs.root].contents) >= 2
    /\ fs.nodes[fs.nodes[fs.root].contents[1]].name = <<"a">>
    /\ fs.nodes[fs.nodes[fs.root].contents[2]].name = <<"a">>
    /\ last.ret = fs.nodes[fs.root].contents[1]

(***************************************************************************)
(* Properties of the permission model.                                     *)
(***************************************************************************)
\* the triad of an octal digit: read is bit 4, write bit 2, execute bit 1
Triad(d) ==
    [read |-> (d \div 4) % 2 = 1, write |-> (d \div 2) % 2 = 1, execute |-> d % 2 = 1]

\* C4: a string "ddd" of octal digits decodes digit 1 as user, digit 2 as
\* group, digit 3 as other, with read = bit 4, write = bit 2, execute =
\* bit 1 of the digit; "754" gives rwx r-x r--.
C4_SymbolicDecodesBits ==
    (last.op = "FsPermissions" /\ last.arg.kind = "string") =>
        last.ret = [user  |-> Triad(Number(last.arg.value[1])),
                    group |-> Triad(Number(last.arg.value[2])),
                    other |-> Triad(Number(last.arg.value[3]))]

\* C5: a numeric mode n in 0..0o777 is decomposed into its own three
\* base-8 digits, the least significant being other, the middle group and
\* the most significant user, each decoded as in the symbolic case.
C5_NumericDecodesOwnDigits ==
    (last.op = "FsPermissions" /\ last.arg.kind = "number") =>
        last.ret = [user  |-> Triad((last.arg.value \div 64) % 8),
                    group |-> Triad((last.arg.value \div 8) % 8),
                    other |-> Triad(last.arg.value % 8)]

\* C6: a node constructed without a permissions argument gets the default
\* of its own kind: rwxrwxr-x for FsDirectory, rw-rw-r-- for FsFile.
C6_DefaultPermissionsOfKind ==
    /\ (last.op = "FsDirectory" /\ last.arg.kind = "undefined") =>
           last.ret.permissions = [user |-> Triad(7), group |-> Triad(7), other |-> Triad(5)]
    /\ (last.op = "FsFile" /\ last.arg.kind = "undefined") =>
           last.ret.permissions = [user |-> Triad(6), group |-> Triad(6), other |-> Triad(4)]

(***************************************************************************)
(* Properties of handleCommand.                                            *)
(***************************************************************************)
\* C7: handleCommand examines every PATH entry in order: a binary is
\* invoked if and only if some PATH entry resolves to a Directory with a
\* child File named as the command, so an earlier directory that lacks the
\* command does not end the search; otherwise nothing is invoked.
C7_DispatchSearchesWholePath ==
    last.op = "handleCommand" =>
        ( last.invoked # <<>>
          <=> \E k \in 1..Len(Split(env.PATH, ":")) :
                  LET n == resolve(fs, Split(env.PATH, ":")[k])
                  IN  /\ n # Undefined
                      /\ fs.nodes[n].type = "directory"
                      /\ \E j \in 1..Len(fs.nodes[n].contents) :
                             /\ fs.nodes[fs.nodes[n].contents[j]].type = "file"
                             /\ fs.nodes[fs.nodes[n].contents[j]].name = last.cmd )

\* the double quotes that toggle quoted mode: those not right after a backslash
Toggles(v) == {i \in 1..Len(v) : v[i] = "\"" /\ (i = 1 \/ v[i - 1] # "\\")}

\* quoted mode when the character at i is read
QuotedAt(v, i) == Cardinality({j \in Toggles(v) : j < i}) % 2 = 1

\* the spaces seen while not in quoted mode
UnquotedSpaces(v) == {i \in 1..Len(v) : v[i] = " " /\ ~QuotedAt(v, i)}

\* the characters of v strictly between lo and hi that are no toggles
RECURSIVE Kept(_, _, _)
Kept(v, lo, hi) ==
    IF lo + 1 >= hi THEN <<>>
    ELSE Kept(v, lo, hi - 1)
         \o (IF (hi - 1) \in Toggles(v) THEN <<>> ELSE <<v[hi - 1]>>)

\* the k-th smallest element of S
Nth(S, k) == CHOOSE x \in S : Cardinality({y \in S : y < x}) = k - 1

\* v cut at its unquoted spaces, toggles dropped
CutAtUnquotedSpaces(v) ==
    LET cuts == UnquotedSpaces(v) \cup {0, Len(v) + 1}
    IN  [k \in 1..(Cardinality(cuts) - 1) |-> Kept(v, Nth(cuts, k), Nth(cuts, k + 1))]

\* C8: the tokenizer splits exactly at the spaces seen while not in quoted
\* mode, quoted mode being toggled by each double quote not right after a
\* backslash; the last token is always emitted, so there are 1 + (number
\* of unquoted spaces) tokens; 'cat "hello world" x' gives cat, hello
\* world, x.
C8_TokensSplitAtUnquotedSpaces ==
    last.op = "handleCommand" =>
        /\ last.res = CutAtUnquotedSpaces(last.v)
        /\ Len(last.res) = 1 + Cardinality(UnquotedSpaces(last.v))
        /\ last.v = CatHelloWorldX =>
               last.res = << <<"c", "a", "t">>,
                             <<"h", "e", "l", "l", "o", " ", "w", "o", "r", "l", "d">>,
                             <<"x">> >>

C8_Witness ==
    /\ last.op = "handleCommand"
    /\ last.v = CatHelloWorldX
    /\ Len(last.res) = 3
    /\ last.res[2] = <<"h", "e", "l", "l", "o", " ", "w", "o", "r", "l", "d">>

\* the number of double quotes in the tokens
RECURSIVE QuoteCount(_)
QuoteCount(tokens) ==
    IF tokens = <<>> THEN 0
    ELSE Cardinality({i \in 1..Len(tokens[1]) : tokens[1][i] = "\""})
         + QuoteCount(Tail(tokens))

\* C9 as stated: no toggling quote appears in a token, and no token
\* contains a backslash immediately followed by a double quote.
C9_NoBackslashQuoteInTokens ==
    last.op = "handleCommand" =>
        /\ QuoteCount(last.res)
               <= Cardinality({i \in 1..Len(last.v) : last.v[i] = "\""} \ Toggles(last.v))
        /\ \A k \in 1..Len(last.res) :
               \A i \in 1..(Len(last.res[k]) - 1) :
                   ~(last.res[k][i] = "\\" /\ last.res[k][i + 1] = "\"")

\* C9 as amended: no toggling quote appears in a token, and an escaped
\* quote does not toggle and is kept verbatim with its backslash: every
\* double quote of a token is right after a backslash, the tokens hold as
\* many double quotes as the line has escaped ones, and 'echo a\"b' gives
\* the tokens echo and a\"b.
C9_TogglesDroppedEscapedQuotesKept ==
    last.op = "handleCommand" =>
        /\ \A k \in 1..Len(last.res) :
               \A i \in 1..Len(last.res[k]) :
                   last.res[k][i] = "\"" => (i > 1 /\ last.res[k][i - 1] = "\\")
        /\ QuoteCount(last.res)
               = Cardinality({i \in 2..Len(last.v) :
                                 last.v[i] = "\"" /\ last.v[i - 1] = "\\"})
        /\ last.v = EchoEscapedQuote =>
               last.res = << <<"e", "c", "h", "o">>, <<"a", "\\", "\"", "b">> >>

C9_Witness ==
    /\ last.op = "handleCommand"
    /\ last.v = EchoEscapedQuote
    /\ last.res[2] = <<"a", "\\", "\"", "b">>

====
